---------------------------- MODULE Spec2Model ----------------------------
(***************************************************************************)
(* LogiDoc: the route-conditional body-class toggle.                       *)
(*                                                                         *)
(* src/src/components/ConditionalNavScript.tsx is a React component that   *)
(* reads the router location and, in a passive effect keyed on             *)
(* location.pathname, adds the class 'actions-sdk-page' to document.body   *)
(* when the pathname includes '/docs/actions-sdk/' and removes it          *)
(* otherwise; the effect's cleanup removes the class.  src/src/theme/      *)
(* Root.tsx mounts one instance of it around the whole app.                *)
(*                                                                         *)
(* Strings are sequences of one-character strings, so that                 *)
(* String.prototype.includes is computed and not assumed.  The class list  *)
(* of document.body is a sequence of tokens (a DOMTokenList is an ordered  *)
(* set).                                                                   *)
(***************************************************************************)
EXTENDS Naturals, Sequences, FiniteSets

VARIABLES
    location,    \* the router's current location: [pathname, search]
    classList,   \* document.body.classList, a sequence of tokens
    mounted,     \* mounted[i]: instance i of ConditionalNavScript is in the tree
    lifecycle,   \* lifecycle[i]: "initial" | "mounted" | "unmounted"
    deps,        \* deps[i]: the pathname of instance i's last committed render
    pc,          \* pc[i]: "idle" | "cleanup" | "effect", the pending part of the effect
    captured,    \* captured[i]: location.pathname in the closure of the pending effect
    threw,       \* TRUE once an operation of the toggle ended in an exception
    hist,        \* the last operation: [op, inst, had, note]; note = the last
                 \* notification delivered (mount, navigate, unmount), had = the
                 \* marker was on the body when it was delivered
    redo,        \* TRUE while the last notification delivered was a duplicate
    snap,        \* the class list when that duplicate was delivered
    grid,        \* the homepage grid: [variant, sdks, cards, rendered]
    ci,          \* the deploy workflow: [run, event, ref, step, outcomes, published]
    nav          \* the sidebar on show: [name, leaves, active, expanded]

vars == <<location, classList, mounted, lifecycle, deps, pc, captured, threw, hist, redo, snap, grid, ci, nav>>

---------------------------------------------------------------------------
(* Bounds and inputs *)

\* the longest generated path is MaxSegs pieces long
MaxSegs == 3

\* ConditionalNavScript.tsx:9, the argument of includes
Needle == <<"/", "d", "o", "c", "s", "/", "a", "c", "t", "i", "o", "n", "s", "-", "s", "d", "k", "/">>

\* the token misspelt with a space in it
MarkerClassWithSpace == <<"a", "c", "t", "i", "o", "n", "s", "-", "s", "d", "k", " ", "p", "a", "g", "e">>

\* ConditionalNavScript.tsx:13,15,20, the token added and removed
MarkerClass == <<"a", "c", "t", "i", "o", "n", "s", "-", "s", "d", "k", "-", "p", "a", "g", "e">>

\* a class of document.body that the toggle does not own
OtherClass == <<"n", "a", "v", "i", "g", "a", "t", "i", "o", "n", "-", "w", "i", "t", "h", "-", "k", "e", "y", "b", "o", "a", "r", "d">>

\* the pieces generated paths are concatenated from: "/docs", "/actions-sdk", "/"
Pieces ==
    { <<"/", "d", "o", "c", "s">>,
      <<"/", "a", "c", "t", "i", "o", "n", "s", "-", "s", "d", "k">>,
      <<"/">> }

RECURSIVE PathsOfLen(_)
PathsOfLen(n) ==
    IF n = 0 THEN { <<>> }
    ELSE { p \o q : p \in PathsOfLen(n - 1), q \in Pieces }

\* "/docs/actions-sdk/overview"
PathOverview == <<"/", "d", "o", "c", "s", "/", "a", "c", "t", "i", "o", "n", "s", "-", "s", "d", "k", "/", "o", "v", "e", "r", "v", "i", "e", "w">>
\* "/docs/lightsync-sdk/intro"
PathLightsync == <<"/", "d", "o", "c", "s", "/", "l", "i", "g", "h", "t", "s", "y", "n", "c", "-", "s", "d", "k", "/", "i", "n", "t", "r", "o">>
\* "/LogiDoc/docs/actions-sdk/overview" (docusaurus.config.ts:21, baseUrl '/LogiDoc/')
PathBaseOverview == <<"/", "L", "o", "g", "i", "D", "o", "c", "/", "d", "o", "c", "s", "/", "a", "c", "t", "i", "o", "n", "s", "-", "s", "d", "k", "/", "o", "v", "e", "r", "v", "i", "e", "w">>
\* "/docs/actions-sdk-v2/x"
PathSibling == <<"/", "d", "o", "c", "s", "/", "a", "c", "t", "i", "o", "n", "s", "-", "s", "d", "k", "-", "v", "2", "/", "x">>
\* "/docs/Actions-SDK/x"
PathUpperCase == <<"/", "d", "o", "c", "s", "/", "A", "c", "t", "i", "o", "n", "s", "-", "S", "D", "K", "/", "x">>
\* "/docs/actions-sdk"
PathSectionRoot == <<"/", "d", "o", "c", "s", "/", "a", "c", "t", "i", "o", "n", "s", "-", "s", "d", "k">>

NamedPaths ==
    { <<>>, PathOverview, PathLightsync, PathBaseOverview, PathSibling,
      PathUpperCase, PathSectionRoot }

\* the pathnames the router can deliver
Paths == NamedPaths \cup UNION { PathsOfLen(n) : n \in 0..MaxSegs }

\* the query strings the router can deliver: "" and "?q=1"
Searches == { <<>>, <<"?", "q", "=", "1">> }

\* the class lists document.body can have before the toggle first mounts: the
\* server-rendered page runs no effect, so the marker is not among them
InitialClassLists == { <<>>, <<OtherClass>> }

\* the component instances of the model, and the one that Root mounts (Root.tsx:8)
Instances == {"root", "extra"}
RootInstances == {"root"}

---------------------------------------------------------------------------
(* String.prototype.includes *)

\* the least index k >= from at which t occurs in s (0-based), or -1 coded as Len(s) + 1
RECURSIVE StringIndexOf(_, _, _)
StringIndexOf(s, t, from) ==
    IF from + Len(t) > Len(s) THEN Len(s) + 1
    ELSE IF SubSeq(s, from + 1, from + Len(t)) = t THEN from
    ELSE StringIndexOf(s, t, from + 1)

\* s.includes(t)
Includes(s, t) == StringIndexOf(s, t, 0) # Len(s) + 1

\* the test written with startsWith in place of includes
isActionsSDKPageStartsWith(pathname) ==
    /\ Len(pathname) >= Len(Needle)
    /\ SubSeq(pathname, 1, Len(Needle)) = Needle

\* the test written without the trailing slash of the needle
isActionsSDKPageNoSlash(pathname) ==
    Includes(pathname, SubSeq(Needle, 1, Len(Needle) - 1))

\* ConditionalNavScript.tsx:9
isActionsSDKPage(pathname) == Includes(pathname, Needle)

---------------------------------------------------------------------------
(* DOMTokenList: document.body.classList *)

\* add and remove throw on an empty token and on a token with ASCII whitespace
TokenValid(token) ==
    /\ token # <<>>
    /\ \A k \in 1..Len(token) : token[k] # " "

Contains(cl, token) == \E k \in 1..Len(cl) : cl[k] = token

\* add that appends without looking for the token
ClassListAddAlways(cl, token) == Append(cl, token)

\* classList.add(token): appends the token unless the list has it
ClassListAdd(cl, token) ==
    IF Contains(cl, token) THEN cl ELSE Append(cl, token)

\* the class removed by resetting document.body.className
ClassListRemoveAll(cl, token) == <<>>

\* classList.remove(token): removes the token where the list has it
ClassListRemove(cl, token) == SelectSeq(cl, LAMBDA c : c # token)

---------------------------------------------------------------------------
(* ConditionalNavScript *)

\* the effect body with its condition inverted
EffectBodyInverted(cl, pathname) ==
    IF ~isActionsSDKPage(pathname)
    THEN ClassListAdd(cl, MarkerClass)
    ELSE ClassListRemove(cl, MarkerClass)

\* lines 9-16, the effect body: the class list it leaves
EffectBody(cl, pathname) ==
    IF isActionsSDKPage(pathname)
    THEN ClassListAdd(cl, MarkerClass)
    ELSE ClassListRemove(cl, MarkerClass)

\* a cleanup that removes nothing
CleanupFnNoop(cl) == cl

\* a cleanup written with classList.toggle
CleanupFnToggle(cl) ==
    IF Contains(cl, MarkerClass)
    THEN ClassListRemove(cl, MarkerClass)
    ELSE Append(cl, MarkerClass)

\* a cleanup that counts the instances still showing a section page
CleanupFnRefCounted(cl) ==
    IF Cardinality({ i \in Instances : mounted[i] /\ isActionsSDKPage(deps[i]) }) > 1
    THEN cl
    ELSE ClassListRemove(cl, MarkerClass)

\* lines 19-21, the cleanup function: the class list it leaves
CleanupFn(cl) == ClassListRemove(cl, MarkerClass)

\* whether the calls of the effect body and of the cleanup complete without throwing
CallsComplete == TokenValid(MarkerClass)

HasMarker(cl) == Contains(cl, MarkerClass)

AllIdle == \A i \in Instances : pc[i] = "idle"

\* the homepage grid before SDKGrid is rendered
NoGrid == [variant |-> "none", sdks |-> <<>>, cards |-> <<>>, rendered |-> FALSE]

\* the deploy workflow before any event
NoRun == [run |-> 0, event |-> "none", ref |-> "none", step |-> 0,
          outcomes |-> <<>>, published |-> 0]

\* the sidebars before one is loaded
NoNav == [name |-> "none", leaves |-> <<>>, active |-> 0, expanded |-> {}]

\* the toggle before its first mount, for the pathnames and class lists given
ToggleInit(pathnames, classLists) ==
    /\ location \in [pathname : pathnames, search : Searches]
    /\ classList \in classLists
    /\ mounted = [i \in Instances |-> FALSE]
    /\ lifecycle = [i \in Instances |-> "initial"]
    /\ deps = [i \in Instances |-> <<>>]
    /\ pc = [i \in Instances |-> "idle"]
    /\ captured = [i \in Instances |-> <<>>]
    /\ threw = FALSE
    /\ hist = [op |-> "init", inst |-> "root", had |-> HasMarker(classList), note |-> "init"]
    /\ redo = FALSE
    /\ snap = <<>>

Init ==
    /\ ToggleInit(Paths, InitialClassLists)
    /\ grid = NoGrid
    /\ ci = NoRun
    /\ nav = NoNav

\* the note of the last operation
Note(op, i) == [op |-> op, inst |-> i, had |-> HasMarker(classList), note |-> op]
Step(op, i) == [hist EXCEPT !.op = op, !.inst = i]

\* React flushes the pending passive effects before it renders again, so a
\* render (mount, re-render on navigation, unmount) finds every effect run
RenderReady == AllIdle

\* a subscription made at mount and never cancelled
SubscribedAlways(i) == lifecycle[i] # "initial"

\* the instances whose useLocation subscription re-renders them on a navigation
Subscribed(i) == mounted[i]

\* an unmount that does not wait for the pending effect
UnmountAnytime(i) == TRUE

\* an unmount is a render: it finds no effect of the instance pending
UnmountReady(i) == pc[i] = "idle"

\* an effect with no dependency array: it runs after every render
DepsAlways(i, p) == TRUE

\* an effect with an empty dependency array
DepsNever(i, p) == FALSE

\* line 22, [location.pathname]: the effect is scheduled when the pathname changed
DepsChanged(i, p) == p # deps[i]

\* lines 4-7, 22: the first render of instance i; its effect is scheduled
Mount(i) ==
    /\ ~mounted[i]
    /\ RenderReady
    /\ mounted' = [mounted EXCEPT ![i] = TRUE]
    /\ lifecycle' = [lifecycle EXCEPT ![i] = "mounted"]
    /\ deps' = [deps EXCEPT ![i] = location.pathname]
    /\ captured' = [captured EXCEPT ![i] = location.pathname]
    /\ pc' = [pc EXCEPT ![i] = "effect"]
    /\ hist' = Note("mount", i)
    /\ redo' = FALSE
    /\ snap' = <<>>
    /\ UNCHANGED <<location, classList, threw>>
    /\ UNCHANGED <<grid, ci, nav>>

\* the element type of the toggle in a rendered tree
ToggleElement == "ConditionalNavScript"

\* a layout that renders the toggle only around the pages of the section
RootSectionOnly(children) ==
    IF isActionsSDKPage(children) THEN <<ToggleElement, children>> ELSE <<children>>

\* Root.tsx:5-12: the fragment Root returns for the page it wraps; the page
\* of a route is named by the route's pathname
Root(children) == <<ToggleElement, children>>

\* React keeps a component instance across renders while the new tree has an
\* element of the same type at the same place
KeepsToggle(old, new) ==
    \A k \in 1..Len(old) :
        old[k] = ToggleElement => (k <= Len(new) /\ new[k] = ToggleElement)

\* the instance Root mounts stays in the tree when the route renders page p
KeptByRoot(i, p) ==
    i \in RootInstances => KeepsToggle(Root(location.pathname), Root(p))

\* lines 5, 22: the router delivers a new location and the page under Root is
\* replaced; every subscribed instance re-renders, and its effect is scheduled
\* when the pathname differs from deps; an instance the new tree has no place
\* for is unmounted (lines 19-21)
Navigate(p, s) ==
    /\ RenderReady
    /\ [pathname |-> p, search |-> s] # location
    /\ location' = [pathname |-> p, search |-> s]
    /\ LET dropped == { i \in Instances : mounted[i] /\ ~KeptByRoot(i, p) }
           rerun == { i \in Instances \ dropped : Subscribed(i) /\ DepsChanged(i, p) }
       IN  /\ mounted' = [i \in Instances |-> mounted[i] /\ i \notin dropped]
           /\ lifecycle' = [i \in Instances |->
                              IF i \in dropped THEN "unmounted" ELSE lifecycle[i]]
           /\ deps' = [i \in Instances |->
                         IF i \in dropped THEN <<>>
                         ELSE IF Subscribed(i) THEN p ELSE deps[i]]
           /\ pc' = [i \in Instances |-> IF i \in rerun THEN "cleanup" ELSE pc[i]]
           /\ captured' = [i \in Instances |-> IF i \in rerun THEN p ELSE captured[i]]
           /\ IF dropped = {}
              THEN classList' = classList /\ threw' = threw
              ELSE IF CallsComplete
                   THEN classList' = CleanupFn(classList) /\ threw' = threw
                   ELSE classList' = classList /\ threw' = TRUE
    /\ hist' = Note("navigate", "root")
    /\ redo' = FALSE
    /\ snap' = <<>>
    /\ UNCHANGED <<grid, ci, nav>>

\* lines 19-21: the cleanup of the previous effect runs before the next effect
RunCleanup(i) ==
    /\ pc[i] = "cleanup"
    /\ pc' = [pc EXCEPT ![i] = "effect"]
    /\ IF CallsComplete
       THEN classList' = CleanupFn(classList) /\ threw' = threw
       ELSE classList' = classList /\ threw' = TRUE
    /\ hist' = Step("cleanup", i)
    /\ UNCHANGED <<location, mounted, lifecycle, deps, captured, redo, snap>>
    /\ UNCHANGED <<grid, ci, nav>>

\* lines 7-17: the effect body runs with the pathname of its render; React
\* runs the cleanups of a commit before its effect bodies
RunEffect(i) ==
    /\ pc[i] = "effect"
    /\ \A j \in Instances : pc[j] # "cleanup"
    /\ pc' = [pc EXCEPT ![i] = "idle"]
    /\ captured' = [captured EXCEPT ![i] = <<>>]
    /\ IF CallsComplete
       THEN classList' = EffectBody(classList, captured[i]) /\ threw' = threw
       ELSE classList' = classList /\ threw' = TRUE
    /\ hist' = Step("effect", i)
    /\ UNCHANGED <<location, mounted, lifecycle, deps, redo, snap>>
    /\ UNCHANGED <<grid, ci, nav>>

\* lines 18-21: instance i leaves the tree and the cleanup of its effect runs
Unmount(i) ==
    /\ mounted[i]
    /\ UnmountReady(i)
    /\ mounted' = [mounted EXCEPT ![i] = FALSE]
    /\ lifecycle' = [lifecycle EXCEPT ![i] = "unmounted"]
    /\ deps' = [deps EXCEPT ![i] = <<>>]
    /\ IF CallsComplete
       THEN classList' = CleanupFn(classList) /\ threw' = threw
       ELSE classList' = classList /\ threw' = TRUE
    /\ hist' = Note("unmount", i)
    /\ redo' = FALSE
    /\ snap' = <<>>
    /\ UNCHANGED <<location, pc, captured>>
    /\ UNCHANGED <<grid, ci, nav>>

MountRoot == \E i \in RootInstances : Mount(i)
NavigateTo == \E p \in Paths, s \in Searches : Navigate(p, s)
CleanupRoot == \E i \in RootInstances : RunCleanup(i)
EffectRoot == \E i \in RootInstances : RunEffect(i)
UnmountRoot == \E i \in RootInstances : Unmount(i)

Next ==
    \/ MountRoot
    \/ NavigateTo
    \/ CleanupRoot
    \/ EffectRoot
    \/ UnmountRoot

\* the app as Root.tsx builds it: one instance of the toggle
Spec == Init /\ [][Next]_vars

---------------------------------------------------------------------------
(* Duplicate delivery of a notification *)

\* the effect of instance i is run again for the pathname it last ran for,
\* cleanup first, as React re-runs an effect
RedeliverPathChange(i) ==
    /\ mounted[i]
    /\ RenderReady
    /\ pc' = [pc EXCEPT ![i] = "cleanup"]
    /\ captured' = [captured EXCEPT ![i] = deps[i]]
    /\ hist' = Note("redeliver", i)
    /\ redo' = TRUE
    /\ snap' = classList
    /\ UNCHANGED <<location, classList, mounted, lifecycle, deps, threw>>
    /\ UNCHANGED <<grid, ci, nav>>

\* the effect body of instance i is called again for the pathname it last ran for
RedeliverEffect(i) ==
    /\ mounted[i]
    /\ RenderReady
    /\ pc' = [pc EXCEPT ![i] = "effect"]
    /\ captured' = [captured EXCEPT ![i] = deps[i]]
    /\ hist' = Note("redeliver", i)
    /\ redo' = TRUE
    /\ snap' = classList
    /\ UNCHANGED <<location, classList, mounted, lifecycle, deps, threw>>
    /\ UNCHANGED <<grid, ci, nav>>

\* the cleanup of the unmounted instance i is called again
RedeliverTeardown(i) ==
    /\ lifecycle[i] = "unmounted"
    /\ RenderReady
    /\ IF CallsComplete
       THEN classList' = CleanupFn(classList) /\ threw' = threw
       ELSE classList' = classList /\ threw' = TRUE
    /\ hist' = Note("teardown-again", i)
    /\ redo' = TRUE
    /\ snap' = classList
    /\ UNCHANGED <<location, mounted, lifecycle, deps, pc, captured>>
    /\ UNCHANGED <<grid, ci, nav>>

RedeliverPathChangeRoot == \E i \in RootInstances : RedeliverPathChange(i)
RedeliverEffectRoot == \E i \in RootInstances : RedeliverEffect(i)
RedeliverTeardownRoot == \E i \in RootInstances : RedeliverTeardown(i)

NextRedeliver ==
    \/ MountRoot
    \/ NavigateTo
    \/ CleanupRoot
    \/ EffectRoot
    \/ UnmountRoot
    \/ RedeliverPathChangeRoot
    \/ RedeliverEffectRoot
    \/ RedeliverTeardownRoot

\* the app with notifications that may be delivered more than once
SpecRedeliver == Init /\ [][NextRedeliver]_vars

---------------------------------------------------------------------------
(* The claims *)

\* p contains '/docs/actions-sdk/': some position of p starts an occurrence
UnderActionsSdk(p) ==
    \E k \in 1..(Len(p) + 1) :
        /\ k + Len(Needle) - 1 <= Len(p)
        /\ \A j \in 1..Len(Needle) : p[k + j - 1] = Needle[j]

\* the number of entries of cl equal to token
Occurrences(cl, token) == Cardinality({ k \in 1..Len(cl) : cl[k] = token })

\* the classes of cl, as a set
ClassSet(cl) == { cl[k] : k \in 1..Len(cl) }

\* C1: once the effect of a mounted instance has processed a pathname that
\* contains '/docs/actions-sdk/', 'actions-sdk-page' is on document.body.
C1_MatchingPathAddsClass ==
    (hist.op = "effect" /\ UnderActionsSdk(deps[hist.inst]))
        => HasMarker(classList)

\* the effect of the mount at /docs/actions-sdk/overview has put the class on
\* a body that did not have it
C1_Witness ==
    /\ hist.op = "effect"
    /\ hist.note = "mount"
    /\ deps["root"] = PathOverview
    /\ ~hist.had
    /\ HasMarker(classList)

\* C2: once the effect has processed a pathname that does not contain
\* '/docs/actions-sdk/', 'actions-sdk-page' is not on document.body, whatever
\* the class list was before.
C2_OtherPathRemovesClass ==
    (hist.op = "effect" /\ ~UnderActionsSdk(deps[hist.inst]))
        => ~HasMarker(classList)

\* the effect of a navigation to /docs/lightsync-sdk/intro has run on a body
\* that had the class when the navigation was delivered
C2_Witness ==
    /\ hist.op = "effect"
    /\ hist.note = "navigate"
    /\ deps["root"] = PathLightsync
    /\ hist.had
    /\ ~HasMarker(classList)

\* C3: right after an instance is unmounted 'actions-sdk-page' is not on
\* document.body, whatever the pathname at the unmount.
C3_UnmountRemovesClass ==
    hist.op = "unmount" => ~HasMarker(classList)

\* the instance was unmounted on /docs/actions-sdk/overview with the class on
C3_Witness ==
    /\ hist.op = "unmount"
    /\ location.pathname = PathOverview
    /\ hist.had
    /\ ~mounted["root"]
    /\ ~HasMarker(classList)

\* C4 as claimed: in every state in which the instance is mounted, the class
\* is on document.body iff the current pathname contains '/docs/actions-sdk/',
\* the states between a path change and the end of its effect included.
C4_Original ==
    \A i \in RootInstances :
        mounted[i] => (HasMarker(classList) <=> UnderActionsSdk(location.pathname))

\* C4 as amended: in every state in which the instance that Root mounts is
\* mounted and has no effect pending, the class is on document.body iff the
\* current pathname contains '/docs/actions-sdk/'.
C4_ClassIffPathWhenSettled ==
    \A i \in RootInstances :
        (mounted[i] /\ pc[i] = "idle")
            => (HasMarker(classList) <=> UnderActionsSdk(location.pathname))

\* mounted and settled on the base-prefixed section path, after a change of
\* the query string only
C4_Witness ==
    /\ mounted["root"]
    /\ pc["root"] = "idle"
    /\ hist.op = "navigate"
    /\ location.pathname = PathBaseOverview
    /\ location.search # <<>>
    /\ HasMarker(classList)

\* C5: processing the same pathname twice in a row leaves the class list as
\* it was after the first time: one 'actions-sdk-page' entry for a matching
\* pathname (no duplicate, no toggle-off), none for another pathname.
C5_ProcessingTwiceIsIdempotent ==
    (redo /\ hist.op = "effect")
        => /\ Occurrences(classList, MarkerClass)
                = (IF UnderActionsSdk(deps[hist.inst]) THEN 1 ELSE 0)
           /\ Occurrences(snap, MarkerClass) = Occurrences(classList, MarkerClass)
           /\ ClassSet(classList) = ClassSet(snap)

\* the effect body has run a second time for a matching pathname
C5_Witness ==
    /\ redo
    /\ hist.op = "effect"
    /\ UnderActionsSdk(deps["root"])
    /\ Occurrences(classList, MarkerClass) = 1
    /\ HasMarker(snap)

\* C6: after the navigations processed while the instance stays mounted, the
\* class is on document.body iff the last pathname contains
\* '/docs/actions-sdk/': a navigation from a matching to another pathname
\* takes it off, the reverse puts it on.
C6_LastPathDecides ==
    \A i \in RootInstances :
        (mounted[i] /\ hist.note = "navigate" /\ pc[i] = "idle")
            => /\ UnderActionsSdk(location.pathname) => HasMarker(classList)
               /\ ~UnderActionsSdk(location.pathname) => ~HasMarker(classList)
               /\ deps[i] = location.pathname

\* a navigation delivered while the class was off has been processed and
\* has put it on
C6_Witness ==
    /\ mounted["root"]
    /\ hist.note = "navigate"
    /\ hist.op = "effect"
    /\ ~hist.had
    /\ HasMarker(classList)

\* C7: once the instance is unmounted, no path change puts the class on
\* document.body: it stays off until an instance is mounted again, and the
\* effect of that mount sets it from the pathname current at the mount.
C7_UnmountIsTerminal ==
    [][ /\ \A i \in RootInstances :
            (lifecycle[i] = "unmounted" /\ lifecycle'[i] = "unmounted")
                => (~HasMarker(classList) /\ ~HasMarker(classList'))
        /\ \A i \in RootInstances :
            (hist.op = "mount" /\ pc[i] = "effect" /\ pc'[i] = "idle")
                => (HasMarker(classList') <=> UnderActionsSdk(location.pathname))
      ]_vars

\* the router has navigated to a section page after the unmount and the class
\* is off
C7_Witness ==
    /\ lifecycle["root"] = "unmounted"
    /\ hist.op = "navigate"
    /\ UnderActionsSdk(location.pathname)
    /\ ~HasMarker(classList)

\* C8: the effect and the teardown do not overlap: an unmounted instance has
\* no cleanup or effect body pending, the unmount leaves nothing running, and
\* no run ends unmounted with the class on document.body.
C8_NoRaceWithTeardown ==
    \A i \in RootInstances :
        /\ ~mounted[i] => (pc[i] = "idle" /\ captured[i] = <<>>)
        /\ (hist.op = "unmount" /\ hist.inst = i) => AllIdle
        /\ lifecycle[i] = "unmounted" => ~HasMarker(classList)

\* the unmount came after a navigation to a section page had been processed
C8_Witness ==
    /\ hist.op = "unmount"
    /\ hist.had
    /\ lifecycle["root"] = "unmounted"
    /\ location.pathname = PathBaseOverview
    /\ AllIdle

\* C9: a path-change notification or the teardown notification delivered
\* again leaves document.body with the classes it had after the first
\* delivery, each once.
C9_RedeliveryIsHarmless ==
    (redo /\ AllIdle)
        => /\ ClassSet(classList) = ClassSet(snap)
           /\ Len(classList) = Cardinality(ClassSet(classList))
           /\ Len(classList) = Len(snap)

\* the teardown notification has been delivered a second time
C9_Witness ==
    /\ redo
    /\ hist.op = "teardown-again"
    /\ lifecycle["root"] = "unmounted"
    /\ ~HasMarker(classList)

\* C10: no operation of the toggle throws, for any pathname; a pending
\* cleanup or effect body can always run; removing the class when it is
\* absent and adding it when it is present leave the class list as it is.
C10_NoErrorOutcome ==
    /\ ~threw
    /\ \A i \in RootInstances : pc[i] # "idle" => ENABLED (RunCleanup(i) \/ RunEffect(i))
    /\ ~HasMarker(classList) => CleanupFn(classList) = classList
    /\ HasMarker(classList) => ClassListAdd(classList, MarkerClass) = classList

\* the instance was unmounted on the empty pathname with the class absent
C10_Witness ==
    /\ hist.op = "unmount"
    /\ location.pathname = <<>>
    /\ ~hist.had
    /\ ~threw
    /\ classList # <<>>

\* the classes of cl other than the marker, in order
OtherClasses(cl) == SelectSeq(cl, LAMBDA c : c # MarkerClass)

\* line 24: what the component renders, the elements it adds to the tree
RenderOutput == <<>>

\* C11: every mount, path change and unmount leaves the body classes other
\* than 'actions-sdk-page' as they were, and the component renders nothing.
C11_OnlyMarkerChanges ==
    [][ /\ OtherClasses(classList') = OtherClasses(classList)
        /\ Len(RenderOutput) = 0
      ]_vars

\* the class was put on and taken off again beside another body class, which
\* is still there
C11_Witness ==
    /\ hist.op = "unmount"
    /\ hist.had
    /\ classList = <<OtherClass>>

\* the needle occurs in p at a position other than the first
OccursNonLeading(p) ==
    \E k \in 2..(Len(p) + 1) :
        /\ k + Len(Needle) - 1 <= Len(p)
        /\ \A j \in 1..Len(Needle) : p[k + j - 1] = Needle[j]

\* C17: the test is containment anywhere in the pathname: a pathname with
\* '/docs/actions-sdk/' after a leading part, such as
\* '/LogiDoc/docs/actions-sdk/overview', gets the class as
\* '/docs/actions-sdk/overview' does.
C17_ContainmentNotPrefix ==
    /\ (hist.op = "effect" /\ OccursNonLeading(deps[hist.inst]))
            => HasMarker(classList)
    /\ isActionsSDKPage(PathBaseOverview) = isActionsSDKPage(PathOverview)
    /\ isActionsSDKPage(PathOverview)

\* the effect has processed '/LogiDoc/docs/actions-sdk/overview'
C17_Witness ==
    /\ hist.op = "effect"
    /\ deps["root"] = PathBaseOverview
    /\ OccursNonLeading(deps["root"])
    /\ HasMarker(classList)

\* C18: on a pathname change the cleanup of the previous effect runs before
\* the new effect body: between the two the class is off, also when the old
\* and the new pathname both contain '/docs/actions-sdk/'.
C18_CleanupBeforeEffect ==
    \A i \in RootInstances :
        /\ (hist.op = "cleanup" /\ hist.inst = i)
                => (pc[i] = "effect" /\ ~HasMarker(classList))
        /\ (pc[i] = "effect" /\ hist.note = "navigate") => hist.op = "cleanup"
        /\ (pc[i] = "cleanup" /\ hist.note = "navigate")
                => (HasMarker(classList) <=> hist.had)

\* between the cleanup and the effect body of a navigation from a section
\* page to a section page
C18_Witness ==
    /\ hist.op = "cleanup"
    /\ hist.note = "navigate"
    /\ hist.had
    /\ UnderActionsSdk(captured["root"])
    /\ ~HasMarker(classList)

\* C19: a navigation that leaves location.pathname as it is (a change of the
\* query string) schedules neither the cleanup nor the effect body and leaves
\* the class list of document.body as it is.
C19_KeyedOnPathnameOnly ==
    [][ (location' # location /\ location'.pathname = location.pathname)
            => (pc' = pc /\ classList' = classList /\ captured' = captured)
      ]_vars

\* the query string changed on /docs/actions-sdk/overview: nothing is
\* pending and the class is still on
C19_Witness ==
    /\ hist.op = "navigate"
    /\ mounted["root"]
    /\ AllIdle
    /\ deps["root"] = PathOverview
    /\ location.search # <<>>
    /\ HasMarker(classList)

\* the pathnames that miss the needle by its trailing slash or by case
NearMisses == { PathSectionRoot, PathSibling, PathUpperCase }

\* C20: the needle has its trailing slash and is matched case-sensitively:
\* after '/docs/actions-sdk', '/docs/actions-sdk-v2/x' or
\* '/docs/Actions-SDK/x' is processed the class is absent.
C20_TrailingSlashAndCase ==
    /\ (hist.op = "effect" /\ deps[hist.inst] \in NearMisses)
            => ~HasMarker(classList)
    /\ \A p \in NearMisses : ~isActionsSDKPage(p)

\* a navigation from a section page to the sibling '/docs/actions-sdk-v2/x'
\* has been processed
C20_Witness ==
    /\ hist.op = "effect"
    /\ hist.note = "navigate"
    /\ deps["root"] = PathSibling
    /\ hist.had
    /\ ~HasMarker(classList)

---------------------------------------------------------------------------
(* SDKGrid: the homepage grid of SDK cards *)

\* the longest generated descriptor list
MaxSdks == 2

\* src/src/pages/index.tsx:25-68, the descriptors of the page (image and
\* placeholder; the placeholder texts without their leading emoji)
SdksIndex ==
    <<
      [title |-> "Logitech Actions SDK",
             description |-> "Create custom actions and integrations for Logitech gaming peripherals.",
             link |-> "/docs/actions-sdk/intro", className |-> "actions-sdk",
             image |-> <<"/img/mx-creative-console.gif">>, video |-> <<>>, placeholder |-> <<>>],
      [title |-> "LightSync SDK",
             description |-> "Control RGB lighting effects and synchronization across Logitech devices.",
             link |-> "/docs/steering-wheel/intro", className |-> "lightsync-sdk",
             image |-> <<>>, video |-> <<>>, placeholder |-> <<"RGB lighting animation">>],
      [title |-> "TrueForce SDK",
             description |-> "Access advanced force feedback and haptic technology.",
             link |-> "/docs/gamepanel/intro", className |-> "trueforce-sdk",
             image |-> <<>>, video |-> <<>>, placeholder |-> <<"Force feedback animation">>],
      [title |-> "Haptics G",
             description |-> "Implement haptic feedback and tactile responses in your applications.",
             link |-> "/docs/led-illumination/intro", className |-> "haptics-sdk",
             image |-> <<>>, video |-> <<>>, placeholder |-> <<"Haptic pulse animation">>],
      [title |-> "Video SDK",
             description |-> "Integrate with Logitech webcams and video streaming devices.",
             link |-> "/docs/video-sdk/intro", className |-> "video-sdk",
             image |-> <<>>, video |-> <<>>, placeholder |-> <<"Video streaming animation">>],
      [title |-> "Blue Voice SDK",
             description |-> "Access professional voice processing and audio enhancement features.",
             link |-> "/docs/blue-voice-sdk/intro", className |-> "blue-voice-sdk",
             image |-> <<>>, video |-> <<>>, placeholder |-> <<"Audio waveform animation">>]
    >>

\* src/unnamed/part_013:25-68, the descriptors of the other copy of the page
\* (image and video)
SdksImageVideo ==
    <<
      [title |-> "Logitech Actions SDK",
             description |-> "Create custom actions and integrations for Logitech gaming peripherals.",
             link |-> "/docs/actions-sdk/", className |-> "actions-sdk",
             image |-> <<"/LogiDoc/img/mx-creative-console.gif">>, video |-> <<>>, placeholder |-> <<>>],
      [title |-> "LightSync SDK",
             description |-> "Control RGB lighting effects and synchronization across Logitech devices.",
             link |-> "/docs/lightsync-sdk/intro", className |-> "lightsync-sdk",
             image |-> <<"/LogiDoc/img/g-hub-article-lightsync-rgb-hero-desktop.webp">>, video |-> <<>>, placeholder |-> <<>>],
      [title |-> "TrueForce SDK",
             description |-> "Access advanced force feedback and haptic technology.",
             link |-> "/docs/gamepanel/intro", className |-> "trueforce-sdk",
             image |-> <<>>, video |-> <<"/LogiDoc/img/gaming-trueforce-hero-desktop.mp4">>, placeholder |-> <<>>],
      [title |-> "Haptics G",
             description |-> "Implement haptic feedback and tactile responses in your applications.",
             link |-> "/docs/led-illumination/intro", className |-> "haptics-sdk",
             image |-> <<"/LogiDoc/img/cover-6.jpg">>, video |-> <<>>, placeholder |-> <<>>],
      [title |-> "Video SDK",
             description |-> "Integrate with Logitech webcams and video streaming devices.",
             link |-> "/docs/video-sdk/intro", className |-> "video-sdk",
             image |-> <<"/LogiDoc/img/images.jpg">>, video |-> <<>>, placeholder |-> <<>>],
      [title |-> "Blue Voice SDK",
             description |-> "Access professional voice processing and audio enhancement features.",
             link |-> "/docs/blue-voice-sdk/intro", className |-> "blue-voice-sdk",
             image |-> <<"/LogiDoc/img/download.jpg">>, video |-> <<>>, placeholder |-> <<>>]
    >>

\* the six descriptors of part_013 with the third one lacking image and video
SdksOneWithoutMedia ==
    <<
      [title |-> "Logitech Actions SDK",
             description |-> "Create custom actions and integrations for Logitech gaming peripherals.",
             link |-> "/docs/actions-sdk/", className |-> "actions-sdk",
             image |-> <<"/LogiDoc/img/mx-creative-console.gif">>, video |-> <<>>, placeholder |-> <<>>],
      [title |-> "LightSync SDK",
             description |-> "Control RGB lighting effects and synchronization across Logitech devices.",
             link |-> "/docs/lightsync-sdk/intro", className |-> "lightsync-sdk",
             image |-> <<"/LogiDoc/img/g-hub-article-lightsync-rgb-hero-desktop.webp">>, video |-> <<>>, placeholder |-> <<>>],
      [title |-> "TrueForce SDK",
             description |-> "Access advanced force feedback and haptic technology.",
             link |-> "/docs/gamepanel/intro", className |-> "trueforce-sdk",
             image |-> <<>>, video |-> <<>>, placeholder |-> <<>>],
      [title |-> "Haptics G",
             description |-> "Implement haptic feedback and tactile responses in your applications.",
             link |-> "/docs/led-illumination/intro", className |-> "haptics-sdk",
             image |-> <<"/LogiDoc/img/cover-6.jpg">>, video |-> <<>>, placeholder |-> <<>>],
      [title |-> "Video SDK",
             description |-> "Integrate with Logitech webcams and video streaming devices.",
             link |-> "/docs/video-sdk/intro", className |-> "video-sdk",
             image |-> <<"/LogiDoc/img/images.jpg">>, video |-> <<>>, placeholder |-> <<>>],
      [title |-> "Blue Voice SDK",
             description |-> "Access professional voice processing and audio enhancement features.",
             link |-> "/docs/blue-voice-sdk/intro", className |-> "blue-voice-sdk",
             image |-> <<"/LogiDoc/img/download.jpg">>, video |-> <<>>, placeholder |-> <<>>]
    >>

\* an optional field: <<>> is undefined, <<v>> is the string v
Undefined == <<>>
Truthy(v) == v # Undefined /\ v[1] # ""

\* the two copies of SDKGrid and the optional fields each one reads
Variants == {"image-video", "image-placeholder"}

\* descriptors for the generated lists: two sets of required fields, and for
\* the optional fields undefined, the empty string or a value
PoolRequired ==
    { [title |-> "SDK one", description |-> "The first SDK.",
       link |-> "/docs/one/intro", className |-> "one-sdk"],
      [title |-> "SDK two", description |-> "The second SDK.",
       link |-> "/docs/two/intro", className |-> "two-sdk"] }

PoolMedia(variant) ==
    IF variant = "image-video"
    THEN { [image |-> i, video |-> v, placeholder |-> Undefined] :
             i \in {Undefined, <<"/img/a.gif">>}, v \in {Undefined, <<"/img/b.mp4">>} }
         \cup { [image |-> <<"">>, video |-> Undefined, placeholder |-> Undefined] }
    ELSE { [image |-> i, video |-> Undefined, placeholder |-> ph] :
             i \in {Undefined, <<"/img/a.gif">>}, ph \in {Undefined, <<"an animation">>} }
         \cup { [image |-> <<"">>, video |-> Undefined, placeholder |-> Undefined] }

Pool(variant) ==
    { [title |-> r.title, description |-> r.description, link |-> r.link,
       className |-> r.className, image |-> md.image, video |-> md.video,
       placeholder |-> md.placeholder] : r \in PoolRequired, md \in PoolMedia(variant) }

RECURSIVE ListsOfLen(_, _)
ListsOfLen(S, n) ==
    IF n = 0 THEN { <<>> }
    ELSE { Append(l, d) : l \in ListsOfLen(S, n - 1), d \in S }

\* the descriptor lists SDKGrid is rendered with
SdkLists(variant) ==
    UNION { ListsOfLen(Pool(variant), n) : n \in 0..MaxSdks }
    \cup (IF variant = "image-video"
          THEN { SdksImageVideo, SdksOneWithoutMedia }
          ELSE { SdksIndex })

\* clsx('card', sdk.className): the truthy arguments
Clsx(a, b) == IF b # "" THEN <<a, b>> ELSE <<a>>

\* lines 84-97: {sdk.image && (<div className="card__image"><img .../></div>)}
ImageBlock(sdk) ==
    IF Truthy(sdk.image)
    THEN << [cls |-> "card__image", el |-> "img", src |-> sdk.image[1], alt |-> sdk.title] >>
    ELSE <<>>

\* part_013 lines 98-114: {sdk.video && (<div className="card__image"><video .../></div>)}
VideoBlock(sdk) ==
    IF Truthy(sdk.video)
    THEN << [cls |-> "card__image", el |-> "video", src |-> sdk.video[1]] >>
    ELSE <<>>

\* index.tsx lines 98-114: {sdk.placeholder && (<div className="card__placeholder">...)}
PlaceholderBlock(sdk) ==
    IF Truthy(sdk.placeholder)
    THEN << [cls |-> "card__placeholder", el |-> "div", text |-> sdk.placeholder[1]] >>
    ELSE <<>>

\* the media rendered without the guards on the optional fields
MediaBlocksUnguarded(variant, sdk) ==
    << [cls |-> "card__image", el |-> "img",
        src |-> IF sdk.image = Undefined THEN "undefined" ELSE sdk.image[1],
        alt |-> sdk.title] >>

\* lines 84-114: the blocks before the header
MediaBlocks(variant, sdk) ==
    ImageBlock(sdk) \o
        (IF variant = "image-video" THEN VideoBlock(sdk) ELSE PlaceholderBlock(sdk))

\* lines 82-129: one column with one card
CardWith(variant, sdk, idx, heading, paragraph) ==
    [ key |-> idx,
      className |-> Clsx("card", sdk.className),
      children |->
        MediaBlocks(variant, sdk) \o
        << [cls |-> "card__header", el |-> "h3", text |-> heading],
           [cls |-> "card__body", el |-> "p", text |-> paragraph],
           [cls |-> "card__footer", el |-> "Link", to |-> sdk.link, text |-> "Learn More"] >> ]

\* the card with the title and the description in each other's place
CardOfSwapped(variant, sdk, idx) ==
    CardWith(variant, sdk, idx, sdk.description, sdk.title)

\* lines 81-130: the callback of sdks.map
CardOf(variant, sdk, idx) ==
    CardWith(variant, sdk, idx, sdk.title, sdk.description)

\* a grid that maps only the descriptors with an image
SDKGridFiltered(variant, sdks) ==
    LET kept == SelectSeq(sdks, LAMBDA d : Truthy(d.image))
    IN  [ i \in 1..Len(kept) |-> CardOf(variant, kept[i], i - 1) ]

\* lines 81-130: sdks.map((sdk, idx) => ...)
SDKGrid(variant, sdks) ==
    [ i \in 1..Len(sdks) |-> CardOf(variant, sdks[i], i - 1) ]

\* the toggle and the workflow at rest
ToggleAtRest == ToggleInit({ <<>> }, { <<>> }) /\ location.search = <<>>

InitGrid ==
    /\ ToggleAtRest
    /\ ci = NoRun
    /\ nav = NoNav
    /\ \E v \in Variants : \E l \in SdkLists(v) :
          grid = [variant |-> v, sdks |-> l, cards |-> <<>>, rendered |-> FALSE]

\* lines 24-135: SDKGrid renders
RenderSDKGrid ==
    /\ ~grid.rendered
    /\ grid.variant \in Variants
    /\ grid' = [grid EXCEPT !.cards = SDKGrid(grid.variant, grid.sdks),
                            !.rendered = TRUE]
    /\ UNCHANGED <<location, classList, mounted, lifecycle, deps, pc, captured,
                   threw, hist, redo, snap, ci, nav>>

NextGrid == RenderSDKGrid

\* the homepage: SDKGrid rendered with a descriptor list
SpecGrid == InitGrid /\ [][NextGrid]_vars

\* the children of a card that are element el
Elements(card, el) == SelectSeq(card.children, LAMBDA b : b.el = el)

\* the children of a card that come before its header
BeforeHeader(card) ==
    SelectSeq(card.children,
              LAMBDA b : b.cls \notin {"card__header", "card__body", "card__footer"})

\* C12: SDKGrid renders one card per descriptor, in the order of the list:
\* N descriptors give N cards and the i-th card is built from the i-th
\* descriptor.
C12_OneCardPerDescriptorInOrder ==
    grid.rendered =>
        /\ Len(grid.cards) = Len(grid.sdks)
        /\ \A i \in 1..Len(grid.sdks) :
            /\ i \in DOMAIN grid.cards
            /\ grid.cards[i].key = i - 1
            /\ Len(Elements(grid.cards[i], "h3")) = 1
            /\ Elements(grid.cards[i], "h3")[1].text = grid.sdks[i].title
            /\ Elements(grid.cards[i], "Link")[1].to = grid.sdks[i].link

\* the six descriptors of index.tsx are rendered as six cards, LightSync second
C12_Witness ==
    /\ grid.rendered
    /\ grid.sdks = SdksIndex
    /\ Len(grid.cards) = 6
    /\ Elements(grid.cards[2], "h3")[1].text = "LightSync SDK"

\* C13: a descriptor with neither image nor video gives a card with no img,
\* no video and no card__image block (with none of the optional fields of
\* its copy of the page, no block before the header at all), while every
\* descriptor of the list that has an optional field gets its block.
C13_NoMediaNoBlock ==
    grid.rendered =>
        \A i \in 1..Len(grid.sdks) :
            LET sdk == grid.sdks[i]
                card == grid.cards[i]
            IN  /\ (~Truthy(sdk.image) /\ ~Truthy(sdk.video))
                        => /\ Elements(card, "img") = <<>>
                           /\ Elements(card, "video") = <<>>
                           /\ \A k \in 1..Len(card.children) :
                                  card.children[k].cls # "card__image"
                /\ (~Truthy(sdk.image) /\ ~Truthy(sdk.video) /\ ~Truthy(sdk.placeholder))
                        => (BeforeHeader(card) = <<>> /\ Len(card.children) = 3)
                /\ Truthy(sdk.image)
                        => /\ Len(Elements(card, "img")) = 1
                           /\ Elements(card, "img")[1].src = sdk.image[1]
                /\ Truthy(sdk.video)
                        => /\ Len(Elements(card, "video")) = 1
                           /\ Elements(card, "video")[1].src = sdk.video[1]
                /\ Truthy(sdk.placeholder)
                        => /\ Len(Elements(card, "div")) = 1
                           /\ Elements(card, "div")[1].text = sdk.placeholder[1]

\* six descriptors, the third without image and video: six cards, the third
\* with no block before its header, the first with its img
C13_Witness ==
    /\ grid.rendered
    /\ grid.sdks = SdksOneWithoutMedia
    /\ Len(grid.cards) = 6
    /\ BeforeHeader(grid.cards[3]) = <<>>
    /\ Len(Elements(grid.cards[1], "img")) = 1
    /\ Len(Elements(grid.cards[4], "img")) = 1

\* the strings a card shows or links to
Shown(card) ==
    { card.children[k].text :
        k \in { n \in 1..Len(card.children) : card.children[n].el \in {"h3", "p", "div", "Link"} } }
    \cup { card.children[k].src :
        k \in { n \in 1..Len(card.children) : card.children[n].el \in {"img", "video"} } }
    \cup { card.children[k].alt :
        k \in { n \in 1..Len(card.children) : card.children[n].el = "img" } }
    \cup { card.children[k].to :
        k \in { n \in 1..Len(card.children) : card.children[n].el = "Link" } }

\* the strings of a descriptor
FieldsOf(sdk) ==
    { sdk.title, sdk.description, sdk.link, sdk.className }
    \cup { v[1] : v \in { w \in {sdk.image, sdk.video, sdk.placeholder} : w # Undefined } }

\* C14: a card is a projection of its own descriptor: it has the
\* descriptor's className, one heading with its title, one paragraph with
\* its description, one link to its link, and shows nothing of another
\* descriptor.
C14_CardProjectsItsDescriptor ==
    grid.rendered =>
        \A i \in 1..Len(grid.sdks) :
            LET sdk == grid.sdks[i]
                card == grid.cards[i]
            IN  /\ card.className = <<"card", sdk.className>>
                /\ Len(Elements(card, "h3")) = 1
                /\ Elements(card, "h3")[1].text = sdk.title
                /\ Len(Elements(card, "p")) = 1
                /\ Elements(card, "p")[1].text = sdk.description
                /\ Len(Elements(card, "Link")) = 1
                /\ Elements(card, "Link")[1].to = sdk.link
                /\ Shown(card) \subseteq FieldsOf(sdk) \cup {"Learn More"}

\* two different descriptors rendered side by side, each card with its own
\* title and link
C14_Witness ==
    /\ grid.rendered
    /\ Len(grid.sdks) = 2
    /\ grid.sdks[1].title # grid.sdks[2].title
    /\ Elements(grid.cards[1], "h3")[1].text = "SDK one"
    /\ Elements(grid.cards[2], "Link")[1].to = "/docs/two/intro"
    /\ grid.cards[2].className = <<"card", "two-sdk">>

---------------------------------------------------------------------------
(* The deploy workflow (src/unnamed/part_012) *)

\* the number of events delivered to the workflow
MaxRuns == 2

\* lines 19-43, jobs.deploy.steps
Steps ==
    << "checkout", "setup-node", "install", "build", "configure-pages",
       "upload", "deploy" >>

\* a workflow that lists only push under `on`
TriggersPushOnly(event, ref) == event = "push" /\ ref = "main"

\* lines 3-9, on: push to main, pull_request against main
Events == {"push", "pull_request"}
Refs == {"main", "feature"}
Triggers(event, ref) == event \in {"push", "pull_request"} /\ ref = "main"

\* a step written with if: always()
StepRunsAlways(outcomes) == TRUE

\* no step has an if: it runs when every step before it succeeded
StepRuns(outcomes) ==
    \A k \in 1..Len(outcomes) : outcomes[k].outcome = "success"

JobRunning == ci.step \in 1..Len(Steps)

InitCI ==
    /\ ToggleAtRest
    /\ grid = NoGrid
    /\ ci = NoRun
    /\ nav = NoNav

\* an event arrives: the job starts when the event matches `on`
Trigger(event, ref) ==
    /\ ~JobRunning
    /\ ci.run < MaxRuns
    /\ ci' = [ci EXCEPT !.run = ci.run + 1,
                        !.event = event,
                        !.ref = ref,
                        !.step = IF Triggers(event, ref) THEN 1 ELSE 0,
                        !.outcomes = <<>>]
    /\ UNCHANGED <<location, classList, mounted, lifecycle, deps, pc, captured,
                   threw, hist, redo, snap, grid, nav>>

\* the next step runs and succeeds or fails; a successful deploy publishes
RunStep(outcome) ==
    /\ JobRunning
    /\ StepRuns(ci.outcomes)
    /\ ci' = [ci EXCEPT !.outcomes = Append(ci.outcomes,
                                            [name |-> Steps[ci.step], outcome |-> outcome]),
                        !.step = ci.step + 1,
                        !.published =
                            IF Steps[ci.step] = "deploy" /\ outcome = "success"
                            THEN ci.published + 1 ELSE ci.published]
    /\ UNCHANGED <<location, classList, mounted, lifecycle, deps, pc, captured,
                   threw, hist, redo, snap, grid, nav>>

\* the next step is skipped, a step before it having failed
SkipStep ==
    /\ JobRunning
    /\ ~StepRuns(ci.outcomes)
    /\ ci' = [ci EXCEPT !.outcomes = Append(ci.outcomes,
                                            [name |-> Steps[ci.step], outcome |-> "skipped"]),
                        !.step = ci.step + 1]
    /\ UNCHANGED <<location, classList, mounted, lifecycle, deps, pc, captured,
                   threw, hist, redo, snap, grid, nav>>

TriggerAny == \E e \in Events, r \in Refs : Trigger(e, r)
RunStepAny == \E o \in {"success", "failure"} : RunStep(o)

NextCI ==
    \/ TriggerAny
    \/ RunStepAny
    \/ SkipStep

\* the workflow under the events of the repository
SpecCI == InitCI /\ [][NextCI]_vars

\* the outcome of the step called name in the run at hand, "none" before it
OutcomeOf(c, name) ==
    IF \E k \in 1..Len(c.outcomes) : c.outcomes[k].name = name
    THEN c.outcomes[CHOOSE k \in 1..Len(c.outcomes) : c.outcomes[k].name = name].outcome
    ELSE "none"

\* the step called name has run (it was neither skipped nor is it still to come)
Ran(c, name) == OutcomeOf(c, name) \in {"success", "failure"}

\* the place of the step called name in the log of the run, 0 before it
PlaceOf(c, name) ==
    IF OutcomeOf(c, name) = "none" THEN 0
    ELSE CHOOSE k \in 1..Len(c.outcomes) : c.outcomes[k].name = name

\* C16: a push to main starts the job; its steps are taken in the order
\* install, build, upload, deploy; upload and deploy run only after the
\* build (and the install) succeeded, and the site is published only by a
\* deploy that ran after a successful build.
C16_PublishOnlyAfterBuild ==
    /\ [](/\ (ci.event = "push" /\ ci.ref = "main") => ci.step >= 1
          /\ (ci.event = "push" /\ ci.ref # "main") => ci.step = 0
          /\ \A a, b \in {"install", "build", "upload", "deploy"} :
                (PlaceOf(ci, a) > 0 /\ PlaceOf(ci, b) > 0
                    /\ <<a, b>> \in { <<"install", "build">>, <<"build", "upload">>,
                                      <<"upload", "deploy">> })
                    => PlaceOf(ci, a) < PlaceOf(ci, b)
          /\ Ran(ci, "build") => OutcomeOf(ci, "install") = "success"
          /\ Ran(ci, "upload") => OutcomeOf(ci, "build") = "success"
          /\ Ran(ci, "deploy") =>
                (OutcomeOf(ci, "build") = "success" /\ OutcomeOf(ci, "upload") = "success")
          /\ OutcomeOf(ci, "deploy") # "none" => OutcomeOf(ci, "upload") # "none")
    /\ [][ ci'.published # ci.published
              => (OutcomeOf(ci', "install") = "success"
                  /\ OutcomeOf(ci', "build") = "success"
                  /\ OutcomeOf(ci', "upload") = "success") ]_vars

\* a push to main whose build failed: upload and deploy were skipped and
\* nothing was published
C16_Witness ==
    /\ ci.event = "push"
    /\ ci.ref = "main"
    /\ OutcomeOf(ci, "install") = "success"
    /\ OutcomeOf(ci, "build") = "failure"
    /\ OutcomeOf(ci, "upload") = "skipped"
    /\ OutcomeOf(ci, "deploy") = "skipped"
    /\ ci.published = 0

---------------------------------------------------------------------------
(* Root and the lifetime of the toggle *)

\* the places of the toggle in a rendered tree
TogglePlaces(tree) == { k \in 1..Len(tree) : tree[k] = ToggleElement }

\* C21: Root renders exactly one ConditionalNavScript, before the page it
\* wraps, whatever the route; at most one instance is ever mounted; the
\* mounted instance leaves the tree only by an unmount of the app, never by a
\* navigation that replaces the page; and while it stays mounted the class
\* goes from present to absent only in the cleanup of a pathname change or in
\* an effect body run for a pathname outside the section.
C21_OneToggleForTheAppLifetime ==
    /\ [](\A p \in Paths :
            /\ TogglePlaces(Root(p)) = {1}
            /\ Root(p)[2] = p)
    /\ [](Cardinality({ i \in Instances : mounted[i] }) <= 1)
    /\ [][\A i \in RootInstances :
            /\ (mounted[i] /\ ~mounted'[i]) => hist'.op = "unmount"
            /\ (mounted[i] /\ location' # location) =>
                   (mounted'[i] /\ classList' = classList)
            /\ (mounted[i] /\ mounted'[i]
                    /\ Occurrences(classList, MarkerClass) > 0
                    /\ Occurrences(classList', MarkerClass) = 0) =>
                   \/ hist'.op = "cleanup" /\ hist'.note = "navigate"
                         /\ pc[i] = "cleanup"
                   \/ hist'.op = "effect" /\ ~UnderActionsSdk(captured[i])]_vars

\* the page was replaced by a navigation from a section page to
\* '/docs/Actions-SDK/x': the instance Root mounted is still mounted, its
\* effect has run, and the class that was on at the navigation is off
C21_Witness ==
    /\ mounted["root"]
    /\ lifecycle["root"] = "mounted"
    /\ hist.note = "navigate"
    /\ hist.op = "effect"
    /\ hist.had
    /\ pc["root"] = "idle"
    /\ location.pathname = PathUpperCase
    /\ Occurrences(classList, MarkerClass) = 0

---------------------------------------------------------------------------
(* Two instances of the toggle *)

MountAny == \E i \in Instances : Mount(i)
NavigateNamed == \E p \in NamedPaths, s \in Searches : Navigate(p, s)
CleanupAny == \E i \in Instances : RunCleanup(i)
EffectAny == \E i \in Instances : RunEffect(i)
UnmountAny == \E i \in Instances : Unmount(i)

InitTwo ==
    /\ ToggleInit(NamedPaths, InitialClassLists)
    /\ grid = NoGrid
    /\ ci = NoRun
    /\ nav = NoNav

NextTwo ==
    \/ MountAny
    \/ NavigateNamed
    \/ CleanupAny
    \/ EffectAny
    \/ UnmountAny

\* a page that renders a second ConditionalNavScript besides the one of Root
SpecTwo == InitTwo /\ [][NextTwo]_vars

\* an instance is mounted on a section page, nothing is pending, and the
\* class is off
Orphaned ==
    /\ \A i \in Instances : pc[i] = "idle"
    /\ \E j \in Instances : mounted[j]
    /\ UnderActionsSdk(location.pathname)
    /\ Occurrences(classList, MarkerClass) = 0

---------------------------------------------------------------------------
(* sidebars.ts: the navigation trees *)

\* a leaf entry, written in sidebars.ts as the bare document id
Doc(id) ==
    [type |-> "doc", id |-> id, label |-> "", collapsible |-> FALSE,
     collapsed |-> FALSE, items |-> <<>>]

\* a category entry; its items are document ids
Category(label, collapsible, collapsed, items) ==
    [type |-> "category", id |-> "", label |-> label, collapsible |-> collapsible,
     collapsed |-> collapsed, items |-> items]

\* sidebars.ts:4-45; a category that sets neither collapsible nor collapsed
\* has the defaults of the docs plugin, collapsible and collapsed
actionsSdkSidebar ==
    << Doc("actions-sdk/index"),
       Doc("actions-sdk/overview"),
       Doc("actions-sdk/getting-started"),
       Doc("actions-sdk/installation"),
       Doc("actions-sdk/authentication"),
       Doc("actions-sdk/quick-start"),
       Category("Core Concepts", TRUE, TRUE,
                << "actions-sdk/core-concepts/objects",
                   "actions-sdk/core-concepts/webhooks",
                   "actions-sdk/core-concepts/rate-limits" >>),
       Doc("actions-sdk/api-reference"),
       Category("Guides & Tutorials", TRUE, TRUE,
                << "actions-sdk/guides/payment-intents",
                   "actions-sdk/guides/save-cards",
                   "actions-sdk/guides/webhooks-guide" >>),
       Doc("actions-sdk/samples"),
       Doc("actions-sdk/error-handling"),
       Doc("actions-sdk/release-notes"),
       Doc("actions-sdk/faq"),
       Doc("actions-sdk/support"),
       Category("Plugin Development (Hidden)", TRUE, TRUE,
                << "actions-sdk/plugin-development/marketplace-approval-guidelines" >>),
       Doc("actions-sdk/plugin-development/marketplace-approval-guidelines") >>

\* sidebars.ts:46-107
sdk2Sidebar ==
    << Category("Introduction", FALSE, FALSE,
                << "sdk2/getting-started",
                   "sdk2/your-first-changes",
                   "sdk2/plugin-environment" >>),
       Category("Plugin Guides", FALSE, FALSE,
                << "sdk2/actions",
                   "sdk2/keys",
                   "sdk2/dials",
                   "sdk2/settings",
                   "sdk2/property-inspectors",
                   "sdk2/devices",
                   "sdk2/profiles",
                   "sdk2/logging",
                   "sdk2/deep-linking",
                   "sdk2/app-monitoring",
                   "sdk2/system",
                   "sdk2/localization",
                   "sdk2/distribution" >>),
       Category("Style Guide", FALSE, FALSE,
                << "sdk2/plugin-guidelines",
                   "sdk2/code-linting",
                   "sdk2/submission-guidelines" >>),
       Category("References", FALSE, FALSE,
                << "sdk2/manifest",
                   "sdk2/touchscreen-layout",
                   "sdk2/changes" >>),
       Category("WebSocket API", FALSE, FALSE,
                << "sdk2/websocket-api-plugin",
                   "sdk2/websocket-api-property-inspector",
                   "sdk2/websocket-api-changes" >>) >>

\* sidebars.ts:3-108, the exported object
sidebars == [actionsSdkSidebar |-> actionsSdkSidebar, sdk2Sidebar |-> sdk2Sidebar]

SidebarNames == DOMAIN sidebars

\* the leaves of a category, each with the label of the category
LeavesIn(label, items) ==
    [k \in 1..Len(items) |-> [id |-> items[k], category |-> label]]

\* the leaf entries of a sidebar in the order they are shown, those inside
\* categories included
RECURSIVE Leaves(_)
Leaves(entries) ==
    IF entries = <<>> THEN <<>>
    ELSE LET e == Head(entries)
         IN  (IF e.type = "doc"
              THEN << [id |-> e.id, category |-> ""] >>
              ELSE LeavesIn(e.label, e.items)) \o Leaves(Tail(entries))

\* the categories of a sidebar
CategoriesOf(entries) ==
    { entries[k] : k \in { n \in 1..Len(entries) : entries[n].type = "category" } }

\* the categories shown open when the sidebar is first shown
OpenAtFirst(entries) ==
    { c.label : c \in { d \in CategoriesOf(entries) : ~d.collapsible \/ ~d.collapsed } }

InitNav ==
    /\ ToggleAtRest
    /\ grid = NoGrid
    /\ ci = NoRun
    /\ nav = NoNav

\* the reader enters a section: its sidebar is shown with no document active
LoadSidebar(name) ==
    /\ name # nav.name
    /\ nav' = [name |-> name,
               leaves |-> Leaves(sidebars[name]),
               active |-> 0,
               expanded |-> OpenAtFirst(sidebars[name])]
    /\ UNCHANGED <<location, classList, mounted, lifecycle, deps, pc, captured,
                   threw, hist, redo, snap, grid, ci>>

\* the reader opens the document of leaf k; the category it is in is shown open
Activate(k) ==
    /\ nav.name \in SidebarNames
    /\ k \in 1..Len(nav.leaves)
    /\ k # nav.active
    /\ nav' = [nav EXCEPT
                 !.active = k,
                 !.expanded = IF nav.leaves[k].category = "" THEN @
                              ELSE @ \cup { nav.leaves[k].category }]
    /\ UNCHANGED <<location, classList, mounted, lifecycle, deps, pc, captured,
                   threw, hist, redo, snap, grid, ci>>

\* the reader clicks a collapsible category: it opens or closes
ToggleCategory(label) ==
    /\ nav.name \in SidebarNames
    /\ \E c \in CategoriesOf(sidebars[nav.name]) : c.label = label /\ c.collapsible
    /\ nav' = [nav EXCEPT
                 !.expanded = IF label \in @ THEN @ \ { label } ELSE @ \cup { label }]
    /\ UNCHANGED <<location, classList, mounted, lifecycle, deps, pc, captured,
                   threw, hist, redo, snap, grid, ci>>

LoadAny == \E name \in SidebarNames : LoadSidebar(name)
ActivateAny == \E k \in 1..Len(nav.leaves) : Activate(k)
ToggleCategoryAny ==
    \E name \in SidebarNames : \E c \in CategoriesOf(sidebars[name]) :
        ToggleCategory(c.label)

NextNav ==
    \/ LoadAny
    \/ ActivateAny
    \/ ToggleCategoryAny

SpecNav == InitNav /\ [][NextNav]_vars

\* the places of a document id among the leaves of the sidebar on show
PlacesOf(id) == { k \in 1..Len(nav.leaves) : nav.leaves[k].id = id }

\* C23: in the sidebar on show every document id is the id of at most one
\* leaf entry, the leaves inside categories counted with those at top level.
C23_EachDocAtMostOnce ==
    \A k \in 1..Len(nav.leaves) : Cardinality(PlacesOf(nav.leaves[k].id)) <= 1

---------------------------------------------------------------------------
(* The workflow on a pull request *)

\* every step taken so far in the run at hand succeeded
AllSucceeded == \A k \in 1..Len(ci.outcomes) : ci.outcomes[k].outcome = "success"

\* C24: a push to main and a pull request targeting main both start the
\* job; whether the next step of a running job runs or is skipped depends on
\* the outcomes of the steps before it and not on the event; so on a pull
\* request upload and deploy run once the steps before them succeeded, and a
\* successful deploy publishes the site as it does on a push.
C24_PullRequestRunsTheSameJob ==
    /\ [](\A e \in {"push", "pull_request"} :
            /\ (ci.event = e /\ ci.ref = "main") => ci.step >= 1
            /\ (ci.event = e /\ ci.ref = "main" /\ JobRunning /\ AllSucceeded)
                  => ENABLED RunStep("success"))
    /\ [](JobRunning =>
            /\ (ENABLED RunStepAny) <=> AllSucceeded
            /\ (ENABLED SkipStep) <=> ~AllSucceeded)
    /\ [][(/\ ci.event = "pull_request"
            /\ OutcomeOf(ci, "deploy") = "none"
            /\ OutcomeOf(ci', "deploy") = "success")
           => (/\ ci'.published = ci.published + 1
               /\ OutcomeOf(ci', "upload") = "success"
               /\ ci'.event = "pull_request")]_vars

\* a pull request targeting main whose steps all succeeded: upload and deploy
\* ran and the site was published
C24_Witness ==
    /\ ci.event = "pull_request"
    /\ ci.ref = "main"
    /\ OutcomeOf(ci, "build") = "success"
    /\ OutcomeOf(ci, "upload") = "success"
    /\ OutcomeOf(ci, "deploy") = "success"
    /\ ci.published >= 1

=============================================================================
